---- MODULE Spec2Model ----
(***************************************************************************)
(* Model of the survey map widget: the aggregation functions               *)
(* (aggregateByCountry, aggregateByState), the metric helpers and the      *)
(* drill-down view state of MapComponent, with the data and geography      *)
(* fetches it depends on.                                                  *)
(*                                                                         *)
(* Numbers.  A JavaScript number is modelled as a record [k, n, d]:        *)
(*   k = "num"   the rational n/d in lowest terms, d > 0                   *)
(*   k = "nan"   NaN                                                       *)
(*   k = "inf"   +Infinity (n = 1) or -Infinity (n = -1)                   *)
(*   k = "undef" the value undefined (a missing optional field)            *)
(* The inputs of the model are integers, so every sum and product the code *)
(* forms is an exact integer and the only inexact operation, the final     *)
(* division, is represented exactly by the rational.                       *)
(* Latitude, longitude and responseCount of a city are plain integers.     *)
(* A surveyDate is a natural number: 0 is an absent (undefined or empty)   *)
(* date, and a positive number is the rank of the ISO string in            *)
(* lexicographic order, so that the code's string comparison is <.         *)
(***************************************************************************)
EXTENDS Integers, Sequences, FiniteSets, TLC

VARIABLES
    \* ---- MapComponent signals (part_001:194-207)
    selectedMetric, surveyData, loading, error,
    displayType, drillLevel, selectedCountry, selectedState, baseLayerKey,
    \* ---- MapComponent private fields (part_001:189-192) and the Leaflet map
    map,            \* TRUE when this.map is a live L.Map, FALSE when null
    markerLayers,   \* the markers added to the map, in order
    geoJsonLayer,   \* the choropleth layer the component holds, or Null
    mapGeoLayers,   \* the choropleth layers that are on the Leaflet map
    tileLayer,      \* the base tile layer shown on the map, or Null
    \* ---- lifecycle and the two asynchronous fetches
    phase,          \* "constructed", "active" (after ngAfterViewInit), "destroyed"
    surveyFetch,    \* "idle", "pending", "done", "failed", "cancelled", "discarded"
    geoJsonObs,     \* GeoService.geoJson$: FALSE when null, TRUE once created
    geoHttp,        \* state of the world-atlas request behind shareReplay(1)
    geoRequests,    \* number of HTTP requests issued for the world atlas
    geoSubs,        \* the component's subscriptions awaiting the geography
    \* ---- history: the drill transition that acted last ("none" at first)
    lastDrill,
    \* ---- the aggregation harness (specification SpecAgg)
    aggInput, aggCountry, aggCall, aggResult,
    \* ---- the helper-function harness (specification SpecFn)
    fnArgs,         \* the function to apply and its arguments
    fnCall,         \* "none", or the name of the function that was applied
    fnResult        \* what the function returned

viewVars == <<selectedMetric, displayType, drillLevel, selectedCountry,
              selectedState, baseLayerKey>>
dataVars == <<surveyData, loading, error, surveyFetch>>
mapVars  == <<map, markerLayers, geoJsonLayer, mapGeoLayers, tileLayer>>
geoVars  == <<geoJsonObs, geoHttp, geoRequests, geoSubs>>
aggVars  == <<aggInput, aggCountry, aggCall, aggResult>>
fnVars   == <<fnArgs, fnCall, fnResult>>
vars == <<viewVars, dataVars, mapVars, geoVars, phase, lastDrill, aggVars, fnVars>>

----------------------------------------------------------------------------
(* Bounds of the model *)

\* longest survey data list the data service delivers
MaxRecords == 2
\* longest input list of the aggregation harness
MaxAggLen == 3
\* most geography subscriptions that may be waiting at once
MaxGeoSubs == 2
\* most world-atlas HTTP requests counted
MaxGeoRequests == 2

----------------------------------------------------------------------------
(* Values *)

Null == "<null>"
NoName == "<undefined>"
NoDate == 0

Num(i) == [k |-> "num", n |-> i, d |-> 1]
NaN == [k |-> "nan", n |-> 0, d |-> 1]
Undefined == [k |-> "undef", n |-> 0, d |-> 1]
Infinity(sign) == [k |-> "inf", n |-> sign, d |-> 1]

Abs(i) == IF i < 0 THEN -i ELSE i

RECURSIVE GCD(_, _)
GCD(a, b) == IF b = 0 THEN a ELSE GCD(b, a % b)

\* JavaScript's a / b on two integers: 0/0 is NaN, x/0 is +-Infinity.
JSDiv(a, b) ==
    IF b = 0
    THEN IF a = 0 THEN NaN ELSE Infinity(IF a > 0 THEN 1 ELSE -1)
    ELSE LET g == GCD(Abs(a), Abs(b))
             s == IF b < 0 THEN -1 ELSE 1
         IN  [k |-> "num", n |-> s * (a \div g), d |-> s * (b \div g)]

\* typeof v === 'number' && !Number.isNaN(v)
IsRealNumber(v) == v.k \in {"num", "inf"}

\* a >= b for a JavaScript number a and an integer b (false when a is NaN)
GE(a, b) ==
    CASE a.k = "num" -> a.n >= b * a.d
      [] a.k = "inf" -> a.n > 0
      [] OTHER -> FALSE
LT(a, b) ==
    CASE a.k = "num" -> a.n < b * a.d
      [] a.k = "inf" -> a.n < 0
      [] OTHER -> FALSE
LE(a, b) ==
    CASE a.k = "num" -> a.n <= b * a.d
      [] a.k = "inf" -> a.n < 0
      [] OTHER -> FALSE

----------------------------------------------------------------------------
(* Metric value model (part_001:31-62) *)

Metrics == {"nps", "csat", "ces"}

safeMetricValue(value) == IF IsRealNumber(value) THEN value ELSE Num(0)

\* getColor whose CSAT band 'neutral' starts above 60
getColor_CsatSixtyIsBad(metric, value) ==
    LET v == safeMetricValue(value) IN
    CASE metric = "nps" ->
            IF GE(v, 50) THEN "#22c55e" ELSE IF GE(v, 0) THEN "#eab308" ELSE "#ef4444"
      [] metric = "csat" ->
            IF GE(v, 80) THEN "#22c55e"
            ELSE IF GE(v, 60) /\ ~LE(v, 60) THEN "#eab308" ELSE "#ef4444"
      [] metric = "ces" ->
            IF LT(v, 3) THEN "#22c55e" ELSE IF LE(v, 5) THEN "#eab308" ELSE "#ef4444"
      [] OTHER -> "#6b7280"

getColor(metric, value) ==
    LET v == safeMetricValue(value) IN
    CASE metric = "nps" ->
            IF GE(v, 50) THEN "#22c55e" ELSE IF GE(v, 0) THEN "#eab308" ELSE "#ef4444"
      [] metric = "csat" ->
            IF GE(v, 80) THEN "#22c55e" ELSE IF GE(v, 60) THEN "#eab308" ELSE "#ef4444"
      [] metric = "ces" ->
            IF LT(v, 3) THEN "#22c55e" ELSE IF LE(v, 5) THEN "#eab308" ELSE "#ef4444"
      [] OTHER -> "#6b7280"

----------------------------------------------------------------------------
(* Formatting of a metric value (part_001:37-42)                           *)
(*                                                                         *)
(* A formatted number is a record: t is "fixed" for a decimal with one     *)
(* fraction digit (sign neg, integer part int, fraction digit frac),       *)
(* "int" for an integer, "Infinity" for the text Infinity (with its sign)  *)
(* and Placeholder for the dash the function returns for a missing value.  *)
(* The finite inputs of the model are numbers a double holds exactly       *)
(* (multiples of 1/4), for which the rounding of toFixed is the rounding   *)
(* of the rational, and the two values of the documented scenario, which   *)
(* are no ties.                                                            *)

\* the string of the one character U+2014 (em dash)
Placeholder == "--"

Text(t, neg, int, frac) == [t |-> t, neg |-> neg, int |-> int, frac |-> frac]

\* a value whose typeof is not 'number' and that is not undefined
StringValue == [k |-> "str", n |-> 0, d |-> 1]

\* Number.prototype.toFixed(1): the sign is split off, then the integer n
\* with n / 10 closest to the value, the larger n on a tie
toFixed1(v) ==
    IF v.k = "inf" THEN Text("Infinity", v.n < 0, 0, 0)
    ELSE LET a == Abs(v.n)
             n == (20 * a + v.d) \div (2 * v.d)
         IN  Text("fixed", v.n < 0, n \div 10, n % 10)

\* Math.round: floor(x + 1/2)
MathRound(v) ==
    IF v.k = "inf" THEN v
    ELSE Num((2 * v.n + v.d) \div (2 * v.d))

\* String(x) for the result of Math.round (String(-0) is "0")
StringOf(v) ==
    IF v.k = "inf" THEN Text("Infinity", v.n < 0, 0, 0)
    ELSE Text("int", v.n < 0, Abs(v.n), 0)

formatMetricValue(value, metric) ==
    LET n == safeMetricValue(value) IN
    IF ~IsRealNumber(value) THEN Text(Placeholder, FALSE, 0, 0)
    ELSE IF metric = "ces" THEN toFixed1(n)
    ELSE StringOf(MathRound(n))

----------------------------------------------------------------------------
(* Formatting of a survey date (part_001:71-85)                            *)

\* the ISO strings of the model that Date accepts, with the text that
\* toLocaleString gives for them (month: short, day and year: numeric, hour
\* and minute: 2-digit) in the en-US locale
ParsedDates ==
    ("2024-11-15T09:30:00" :> "Nov 15, 2024, 09:30 AM")
    @@ ("2024-12-01T18:05:00" :> "Dec 1, 2024, 06:05 PM")

\* new Date(iso): a time value, or the Invalid Date when the string does not
\* parse; the constructor does not throw
InvalidDate == "<Invalid Date>"
NewDate(iso) == IF iso \in DOMAIN ParsedDates THEN iso ELSE InvalidDate

\* Date.prototype.toLocaleString: the text "Invalid Date" for the Invalid
\* Date, without throwing
toLocaleString(d) == IF d = InvalidDate THEN "Invalid Date" ELSE ParsedDates[d]

\* neither statement of the try block throws for a string argument, so the
\* catch branch (return iso) is not taken
formatSurveyTime(iso) ==
    IF iso = NoName \/ iso = "" THEN Placeholder
    ELSE toLocaleString(NewDate(iso))

----------------------------------------------------------------------------
(* Survey country name to geography name (geo.service.ts:10-24)            *)

COUNTRY_NAME_TO_GEO ==
    ("USA" :> "United States of America")
    @@ ("UK" :> "United Kingdom")
    @@ ("UAE" :> "United Arab Emirates")
    @@ ("Czech Republic" :> "Czechia")
    @@ ("South Korea" :> "South Korea")
    @@ ("Russia" :> "Russia")
    @@ ("Vietnam" :> "Vietnam")
    @@ ("Taiwan" :> "Taiwan")

\* property names every object literal inherits from Object.prototype
ObjectPrototypeKeys ==
    {"constructor", "toString", "toLocaleString", "valueOf", "hasOwnProperty",
     "isPrototypeOf", "propertyIsEnumerable", "__proto__"}

\* obj[key] on an object literal: the own property, else the inherited
\* member (a function or an object), else undefined
PropertyGet(obj, key) ==
    IF key \in DOMAIN obj THEN [type |-> "string", value |-> obj[key]]
    ELSE IF key \in ObjectPrototypeKeys THEN [type |-> "object", value |-> key]
    ELSE [type |-> "undefined", value |-> ""]

\* COUNTRY_NAME_TO_GEO[surveyCountry] ?? surveyCountry
geoNameForCountry(surveyCountry) ==
    LET found == PropertyGet(COUNTRY_NAME_TO_GEO, surveyCountry) IN
    IF found.type = "undefined" THEN [type |-> "string", value |-> surveyCountry]
    ELSE found

----------------------------------------------------------------------------
(* Aggregation (part_001:88-174) *)

\* the group key without the fallback to the country name
StateOrCountry_NoFallback(c) == c.state

\* c.state || c.country
StateOrCountry(c) == IF c.state # "" THEN c.state ELSE c.country

\* const nps = Number(c.nps); (Number.isNaN(nps) ? 0 : nps)
NpsTerm(c) == IF c.nps.k = "num" THEN c.nps.n ELSE 0
\* typeof c.csat === 'number' && !Number.isNaN(c.csat) ? c.csat : 50
CsatTerm(c) == IF c.csat.k = "num" THEN c.csat.n ELSE 50
\* typeof c.ces === 'number' && !Number.isNaN(c.ces) ? c.ces : 3
CesTerm(c) == IF c.ces.k = "num" THEN c.ces.n ELSE 3

\* Map.get: the position of the entry with this key, 0 when there is none
MapGet(m, key) ==
    IF \E j \in 1..Len(m) : m[j].key = key
    THEN CHOOSE j \in 1..Len(m) : m[j].key = key
    ELSE 0

\* the entry set for a key seen for the first time
NewEntry(key, c) ==
    [key   |-> key,
     lat   |-> c.latitude * c.responseCount,
     lng   |-> c.longitude * c.responseCount,
     nps   |-> NpsTerm(c) * c.responseCount,
     csat  |-> CsatTerm(c) * c.responseCount,
     ces   |-> CesTerm(c) * c.responseCount,
     count |-> c.responseCount,
     date  |-> c.surveyDate]

\* AddToEntry that adds the scores of the city without its weight
AddToEntry_Unweighted(existing, c) ==
    [key   |-> existing.key,
     lat   |-> existing.lat + c.latitude * c.responseCount,
     lng   |-> existing.lng + c.longitude * c.responseCount,
     nps   |-> existing.nps + NpsTerm(c),
     csat  |-> existing.csat + CsatTerm(c),
     ces   |-> existing.ces + CesTerm(c),
     count |-> existing.count + c.responseCount,
     date  |-> IF c.surveyDate # NoDate
                  /\ (existing.date = NoDate \/ c.surveyDate > existing.date)
               THEN c.surveyDate ELSE existing.date]

\* AddToEntry that leaves the count of the entry as it was
AddToEntry_KeepsCount(existing, c) ==
    [key   |-> existing.key,
     lat   |-> existing.lat + c.latitude * c.responseCount,
     lng   |-> existing.lng + c.longitude * c.responseCount,
     nps   |-> existing.nps + NpsTerm(c) * c.responseCount,
     csat  |-> existing.csat + CsatTerm(c) * c.responseCount,
     ces   |-> existing.ces + CesTerm(c) * c.responseCount,
     count |-> existing.count,
     date  |-> IF c.surveyDate # NoDate
                  /\ (existing.date = NoDate \/ c.surveyDate > existing.date)
               THEN c.surveyDate ELSE existing.date]

\* AddToEntry that takes a date only while the entry has none
AddToEntry_KeepsFirstDate(existing, c) ==
    [key   |-> existing.key,
     lat   |-> existing.lat + c.latitude * c.responseCount,
     lng   |-> existing.lng + c.longitude * c.responseCount,
     nps   |-> existing.nps + NpsTerm(c) * c.responseCount,
     csat  |-> existing.csat + CsatTerm(c) * c.responseCount,
     ces   |-> existing.ces + CesTerm(c) * c.responseCount,
     count |-> existing.count + c.responseCount,
     date  |-> IF c.surveyDate # NoDate /\ existing.date = NoDate
               THEN c.surveyDate ELSE existing.date]

\* the update of an existing entry
AddToEntry(existing, c) ==
    [key   |-> existing.key,
     lat   |-> existing.lat + c.latitude * c.responseCount,
     lng   |-> existing.lng + c.longitude * c.responseCount,
     nps   |-> existing.nps + NpsTerm(c) * c.responseCount,
     csat  |-> existing.csat + CsatTerm(c) * c.responseCount,
     ces   |-> existing.ces + CesTerm(c) * c.responseCount,
     count |-> existing.count + c.responseCount,
     date  |-> IF c.surveyDate # NoDate
                  /\ (existing.date = NoDate \/ c.surveyDate > existing.date)
               THEN c.surveyDate ELSE existing.date]

\* one iteration of either loop: insert or update the entry of the key
Accumulate(m, key, c) ==
    LET j == MapGet(m, key) IN
    IF j = 0 THEN Append(m, NewEntry(key, c))
    ELSE [m EXCEPT ![j] = AddToEntry(m[j], c)]

RECURSIVE ByCountryLoop(_, _, _)
ByCountryLoop(cities, i, byCountry) ==
    IF i > Len(cities) THEN byCountry
    ELSE ByCountryLoop(cities, i + 1, Accumulate(byCountry, cities[i].country, cities[i]))

CountryAggregate(agg) ==
    [name          |-> agg.key,
     country       |-> NoName,
     state         |-> NoName,
     latitude      |-> JSDiv(agg.lat, agg.count),
     longitude     |-> JSDiv(agg.lng, agg.count),
     nps           |-> JSDiv(agg.nps, agg.count),
     csat          |-> JSDiv(agg.csat, agg.count),
     ces           |-> JSDiv(agg.ces, agg.count),
     responseCount |-> agg.count,
     surveyDate    |-> agg.date,
     level         |-> "country"]

aggregateByCountry(cities) ==
    LET byCountry == ByCountryLoop(cities, 1, <<>>)
    IN  [j \in 1..Len(byCountry) |-> CountryAggregate(byCountry[j])]

RECURSIVE ByStateLoop(_, _, _)
ByStateLoop(filtered, i, byState) ==
    IF i > Len(filtered) THEN byState
    ELSE ByStateLoop(filtered, i + 1,
                     Accumulate(byState, StateOrCountry(filtered[i]), filtered[i]))

StateAggregate(agg, country) ==
    [name          |-> agg.key,
     country       |-> country,
     state         |-> agg.key,
     latitude      |-> JSDiv(agg.lat, agg.count),
     longitude     |-> JSDiv(agg.lng, agg.count),
     nps           |-> JSDiv(agg.nps, agg.count),
     csat          |-> JSDiv(agg.csat, agg.count),
     ces           |-> JSDiv(agg.ces, agg.count),
     responseCount |-> agg.count,
     surveyDate    |-> agg.date,
     level         |-> "state"]

\* the filter that keeps the cities of every country
FilterCountry_KeepsAll(cities, country) == cities

\* cities.filter((c) => c.country === country)
FilterCountry(cities, country) ==
    LET Keep(c) == c.country = country IN SelectSeq(cities, Keep)

aggregateByState(cities, country) ==
    LET byState == ByStateLoop(FilterCountry(cities, country), 1, <<>>)
    IN  [j \in 1..Len(byState) |-> StateAggregate(byState[j], country)]

----------------------------------------------------------------------------
(* Inputs *)

City(name, state, country, lat, lng, nps, csat, ces, count, date) ==
    [city |-> name, state |-> state, country |-> country,
     latitude |-> lat, longitude |-> lng,
     nps |-> nps, csat |-> csat, ces |-> ces,
     responseCount |-> count, surveyDate |-> date]

\* the records the data service may deliver: a city with a state, a city of
\* the same country without one (and without the optional scores), and a
\* city of another country
CityPool ==
    { City("Los Angeles", "CA", "USA", 34, -118, Num(80), Num(90), Num(2), 10, 2),
      City("New York", "", "USA", 40, -74, Num(40), Undefined, Undefined, 20, 1),
      City("London", "", "UK", 51, 0, Num(-10), Num(55), Num(6), 5, NoDate) }

SeqsUpTo(S, n) == UNION {[1..k -> S] : k \in 0..n}

\* the lists the data service may deliver: distinct cities, in any order
DataInputs ==
    {d \in SeqsUpTo(CityPool, MaxRecords) :
        \A i, j \in 1..Len(d) : d[i] = d[j] => i = j}

\* arguments of onCountrySelect / onStateSelect: names of the data, the
\* country name that is the group key of cities without a state, and ""
CountryArgs == {"USA", "UK", ""}
StateArgs == {"CA", "USA", ""}
\* metrics the model selects: one where higher is better, one where lower is
MetricArgs == {"nps", "ces"}
DisplayTypes == {"circle", "time", "area"}
\* keys of baseLayerOptions; BaseLayerArgs are the ones the model selects
BaseLayerKeys == {"standard", "satellite", "terrain"}
BaseLayerArgs == {"standard", "satellite"}

----------------------------------------------------------------------------
(* MapComponent: derived data (part_001:253-267) *)

\* a JavaScript string or null used as a condition
Truthy(s) == s # Null /\ s # ""

\* CitiesOf with the state filter comparing c.state alone (no country fallback)
CitiesOf_NoFallback(data, country, state) ==
    LET InCountry(c) == c.country = country
        InState(c) == c.state = state
        list == SelectSeq(data, InCountry)
    IN  IF state # Null /\ state # "" THEN SelectSeq(list, InState) ELSE list

\* data.filter(country).filter(state), the city branch of currentMapData
CitiesOf(data, country, state) ==
    LET InCountry(c) == c.country = country
        InState(c) == StateOrCountry(c) = state
        list == SelectSeq(data, InCountry)
    IN  IF state # Null /\ state # "" THEN SelectSeq(list, InState) ELSE list

\* the computed signal, as a function of the signals it reads
MapData(data, level, country, state) ==
    IF level = "country" THEN aggregateByCountry(data)
    ELSE IF level = "state" /\ Truthy(country) THEN aggregateByState(data, country)
    ELSE IF level = "city"
         THEN IF ~Truthy(country) THEN data ELSE CitiesOf(data, country, state)
    ELSE <<>>

currentMapData == MapData(surveyData, drillLevel, selectedCountry, selectedState)

----------------------------------------------------------------------------
(* MapComponent: markers and the choropleth layer (part_001:414-596) *)

RADIUS_MIN == 5
RADIUS_MAX == 25
RADIUS_DIVISOR == 10

NoLayer == [metric |-> Null]
GeoLayer(metric) == [metric |-> metric]

\* 'level' in d && 'name' in d
isAggregate(item) == "level" \in DOMAIN item

ItemMetric(item, metric) ==
    CASE metric = "nps" -> item.nps
      [] metric = "csat" -> item.csat
      [] metric = "ces" -> item.ces

\* Math.min(RADIUS_MAX, Math.max(RADIUS_MIN, responseCount / RADIUS_DIVISOR))
CircleRadius(responseCount) ==
    IF responseCount <= RADIUS_MIN * RADIUS_DIVISOR THEN Num(RADIUS_MIN)
    ELSE IF responseCount >= RADIUS_MAX * RADIUS_DIVISOR THEN Num(RADIUS_MAX)
    ELSE JSDiv(responseCount, RADIUS_DIVISOR)

AreaRadius(item) ==
    LET level == IF isAggregate(item) THEN item.level ELSE "city"
    IN  IF level = "country" THEN 600000 ELSE IF level = "state" THEN 180000 ELSE 70000

\* the click handler bound to a marker: the drill operation it calls
MarkerClick(item) ==
    IF isAggregate(item) /\ item.level = "country" THEN "onCountrySelect"
    ELSE IF isAggregate(item) /\ item.level = "state" /\ Truthy(item.country)
         THEN "onStateSelect"
    ELSE "none"

\* one iteration of the marker loop of updateMarkers
Marker(item, metric, dtype) ==
    LET safeVal == safeMetricValue(ItemMetric(item, metric))
        color == getColor(metric, safeVal)
    IN  [kind   |-> IF dtype = "time" THEN "time"
                    ELSE IF dtype = "area" THEN "area" ELSE "circle",
         label  |-> IF isAggregate(item) THEN item.name ELSE item.city,
         at     |-> <<item.latitude, item.longitude>>,
         color  |-> IF dtype = "time" THEN "none" ELSE color,
         radius |-> IF dtype = "time" THEN Num(0)
                    ELSE IF dtype = "area" THEN Num(AreaRadius(item))
                    ELSE CircleRadius(item.responseCount),
         click  |-> MarkerClick(item)]

\* map.removeLayer(layer): the layers without (one occurrence of) layer
RECURSIVE RemoveLayer(_, _)
RemoveLayer(layers, layer) ==
    IF layers = <<>> THEN <<>>
    ELSE IF layers[Len(layers)] = layer THEN SubSeq(layers, 1, Len(layers) - 1)
    ELSE Append(RemoveLayer(SubSeq(layers, 1, Len(layers) - 1), layer),
                layers[Len(layers)])

\* clearMarkers: the choropleth layers left on the map
ClearedGeoLayers ==
    IF geoJsonLayer # NoLayer /\ map THEN RemoveLayer(mapGeoLayers, geoJsonLayer)
    ELSE mapGeoLayers

\* the next callback of the geography subscription, run for one subscriber
GeoNext(layers, sub) == Append(layers, GeoLayer(sub.metric))

\* addChoroplethLayer, called by updateMarkers after clearMarkers.
\* GeoService.getCountriesGeoJson creates the shared observable on first
\* use; subscribing replays the cached value at once, joins the request in
\* flight, or (first subscriber, or after an error reset the share) issues
\* the HTTP request.
addChoroplethLayer(metric) ==
    /\ geoJsonObs' = TRUE
    /\ CASE geoHttp = "ok" ->
              /\ mapGeoLayers' = GeoNext(ClearedGeoLayers, [metric |-> metric])
              /\ geoJsonLayer' = GeoLayer(metric)
              /\ UNCHANGED <<geoHttp, geoRequests, geoSubs>>
         [] geoHttp = "pending" ->
              /\ Len(geoSubs) < MaxGeoSubs
              /\ geoSubs' = Append(geoSubs, [metric |-> metric])
              /\ mapGeoLayers' = ClearedGeoLayers
              /\ geoJsonLayer' = NoLayer
              /\ UNCHANGED <<geoHttp, geoRequests>>
         [] OTHER ->
              /\ geoRequests < MaxGeoRequests
              /\ Len(geoSubs) < MaxGeoSubs
              /\ geoRequests' = geoRequests + 1
              /\ geoHttp' = "pending"
              /\ geoSubs' = Append(geoSubs, [metric |-> metric])
              /\ mapGeoLayers' = ClearedGeoLayers
              /\ geoJsonLayer' = NoLayer

\* the body of updateMarkers after the map check, for the values read
UpdateMarkersWith(data, metric, dtype, level) ==
    IF dtype = "area" /\ level = "country" /\ Len(data) > 0
    THEN /\ markerLayers' = <<>>
         /\ addChoroplethLayer(metric)
    ELSE /\ markerLayers' = [i \in 1..Len(data) |-> Marker(data[i], metric, dtype)]
         /\ mapGeoLayers' = ClearedGeoLayers
         /\ geoJsonLayer' = NoLayer
         /\ UNCHANGED geoVars

\* updateMarkers, reading the signals as the handler has just set them
updateMarkers ==
    IF ~map THEN UNCHANGED <<markerLayers, geoJsonLayer, mapGeoLayers, geoVars>>
    ELSE \E data \in {surveyData'}, level \in {drillLevel'},
            country \in {selectedCountry'}, state \in {selectedState'} :
         \E shown \in {MapData(data, level, country, state)} :
            UpdateMarkersWith(shown, selectedMetric', displayType', level)

----------------------------------------------------------------------------
(* MapComponent: lifecycle and data loading *)

\* the component after construction (field initialisers, part_001:189-207)
ComponentInit ==
    /\ selectedMetric = "nps"
    /\ surveyData = <<>>
    /\ loading = TRUE
    /\ error = Null
    /\ displayType = "circle"
    /\ drillLevel = "country"
    /\ selectedCountry = Null
    /\ selectedState = Null
    /\ baseLayerKey = "standard"
    /\ map = FALSE
    /\ markerLayers = <<>>
    /\ geoJsonLayer = NoLayer
    /\ mapGeoLayers = <<>>
    /\ tileLayer = Null
    /\ phase = "constructed"
    /\ surveyFetch = "idle"
    /\ geoJsonObs = FALSE
    /\ geoHttp = "idle"
    /\ geoRequests = 0
    /\ geoSubs = <<>>
    /\ lastDrill = "none"

\* the harness of the aggregation functions at rest
AggIdle ==
    /\ aggInput = <<>>
    /\ aggCountry = Null
    /\ aggCall = "none"
    /\ aggResult = <<>>

\* the harness of the helper functions at rest
FnIdle ==
    /\ fnArgs = <<>>
    /\ fnCall = "none"
    /\ fnResult = Null

Init ==
    /\ ComponentInit
    /\ AggIdle
    /\ FnIdle

\* ngAfterViewInit: initMap (a map only when the container element exists),
\* then loadData, which subscribes to the survey data request
ngAfterViewInit(containerExists) ==
    /\ phase = "constructed"
    /\ phase' = "active"
    /\ map' = containerExists
    /\ tileLayer' = IF containerExists THEN "standard" ELSE Null
    /\ loading' = TRUE
    /\ error' = Null
    /\ surveyFetch' = "pending"
    /\ UNCHANGED <<viewVars, surveyData, markerLayers, geoJsonLayer, mapGeoLayers,
                   geoVars, aggVars, fnVars>>
    /\ UNCHANGED lastDrill

\* loadData, next: the data arrives
SurveyNext(data) ==
    /\ surveyFetch = "pending"
    /\ surveyFetch' = "done"
    /\ surveyData' = data
    /\ loading' = FALSE
    /\ UNCHANGED <<viewVars, error, map, tileLayer, phase, aggVars, fnVars>>
    /\ updateMarkers
    /\ UNCHANGED lastDrill

\* the error callback without this.loading.set(false)
SurveyError_KeepsLoading ==
    /\ surveyFetch = "pending"
    /\ surveyFetch' = "failed"
    /\ error' = "Failed to load survey data"
    /\ UNCHANGED <<viewVars, surveyData, loading, mapVars, geoVars, phase, aggVars, fnVars>>
    /\ UNCHANGED lastDrill

\* loadData, error: the request fails
SurveyError ==
    /\ surveyFetch = "pending"
    /\ surveyFetch' = "failed"
    /\ loading' = FALSE
    /\ error' = "Failed to load survey data"
    /\ UNCHANGED <<viewVars, surveyData, mapVars, geoVars, phase, aggVars, fnVars>>
    /\ UNCHANGED lastDrill

\* the outcome of the survey request (data or error) arrives after
\* takeUntilDestroyed has unsubscribed: neither callback runs
SurveyAfterDestroy ==
    /\ surveyFetch = "cancelled"
    /\ surveyFetch' = "discarded"
    /\ UNCHANGED <<viewVars, surveyData, loading, error, mapVars, geoVars, phase,
                   aggVars, fnVars>>
    /\ UNCHANGED lastDrill

\* ngOnDestroy without takeUntilDestroyed on the survey subscription
ngOnDestroy_KeepsSurveySubscription ==
    /\ phase = "active"
    /\ phase' = "destroyed"
    /\ markerLayers' = <<>>
    /\ geoJsonLayer' = NoLayer
    /\ mapGeoLayers' = <<>>
    /\ map' = FALSE
    /\ tileLayer' = Null
    /\ geoSubs' = <<>>
    /\ UNCHANGED <<viewVars, dataVars, geoJsonObs, geoHttp, geoRequests, aggVars, fnVars>>
    /\ UNCHANGED lastDrill

\* ngOnDestroy and the DestroyRef callbacks of takeUntilDestroyed: the
\* markers are cleared, the map is removed with every layer on it, and both
\* subscriptions are cancelled (the shared world-atlas request stays)
ngOnDestroy ==
    /\ phase = "active"
    /\ phase' = "destroyed"
    /\ markerLayers' = <<>>
    /\ geoJsonLayer' = NoLayer
    /\ mapGeoLayers' = <<>>
    /\ map' = FALSE
    /\ tileLayer' = Null
    /\ surveyFetch' = IF surveyFetch = "pending" THEN "cancelled" ELSE surveyFetch
    /\ geoSubs' = <<>>
    /\ UNCHANGED <<viewVars, surveyData, loading, error, geoJsonObs, geoHttp,
                   geoRequests, aggVars, fnVars>>
    /\ UNCHANGED lastDrill

\* the world-atlas request succeeds: every waiting subscriber's next runs
RECURSIVE DeliverGeo(_, _)
DeliverGeo(layers, subs) ==
    IF subs = <<>> THEN layers
    ELSE DeliverGeo(GeoNext(layers, Head(subs)), Tail(subs))

GeoHttpSuccess ==
    /\ geoHttp = "pending"
    /\ geoHttp' = "ok"
    /\ geoSubs' = <<>>
    /\ IF map /\ geoSubs # <<>>
       THEN /\ mapGeoLayers' = DeliverGeo(mapGeoLayers, geoSubs)
            /\ geoJsonLayer' = GeoLayer(geoSubs[Len(geoSubs)].metric)
       ELSE UNCHANGED <<mapGeoLayers, geoJsonLayer>>
    /\ UNCHANGED <<viewVars, dataVars, map, markerLayers, tileLayer, geoJsonObs,
                   geoRequests, phase, aggVars, fnVars>>
    /\ UNCHANGED lastDrill

\* the world-atlas request fails: the subscribers have no error handler
GeoHttpError ==
    /\ geoHttp = "pending"
    /\ geoHttp' = "failed"
    /\ geoSubs' = <<>>
    /\ UNCHANGED <<viewVars, dataVars, mapVars, geoJsonObs, geoRequests, phase,
                   aggVars, fnVars>>
    /\ UNCHANGED lastDrill

----------------------------------------------------------------------------
(* MapComponent: selectors and drill-down transitions (part_001:269-403) *)

\* what every drill or selector handler leaves alone
HandlerFrame == UNCHANGED <<dataVars, map, tileLayer, phase, aggVars, fnVars>>

\* set currentMetric that also returns the view to the world level
setCurrentMetric_ResetsDrill(value) ==
    /\ phase = "active"
    /\ selectedMetric' = value
    /\ drillLevel' = "country"
    /\ selectedCountry' = Null
    /\ selectedState' = Null
    /\ UNCHANGED <<displayType, baseLayerKey>>
    /\ UNCHANGED <<dataVars, map, tileLayer, phase, aggVars, fnVars>>
    /\ updateMarkers
    /\ UNCHANGED lastDrill

\* set currentMetric
setCurrentMetric(value) ==
    /\ phase = "active"
    /\ selectedMetric' = value
    /\ UNCHANGED <<displayType, drillLevel, selectedCountry, selectedState, baseLayerKey>>
    /\ HandlerFrame
    /\ updateMarkers
    /\ UNCHANGED lastDrill

\* set currentDisplayType
setCurrentDisplayType(value) ==
    /\ phase = "active"
    /\ displayType' = value
    /\ UNCHANGED <<selectedMetric, drillLevel, selectedCountry, selectedState, baseLayerKey>>
    /\ HandlerFrame
    /\ updateMarkers
    /\ UNCHANGED lastDrill

\* switchBaseLayer: the tile layer shown afterwards
switchBaseLayer(key) == IF map /\ key \in BaseLayerKeys THEN key ELSE tileLayer

\* set currentBaseLayer
setCurrentBaseLayer(value) ==
    /\ phase = "active"
    /\ baseLayerKey' = value
    /\ tileLayer' = switchBaseLayer(value)
    /\ UNCHANGED <<selectedMetric, displayType, drillLevel, selectedCountry,
                   selectedState, dataVars, map, markerLayers, geoJsonLayer,
                   mapGeoLayers, geoVars, phase, aggVars, fnVars>>
    /\ UNCHANGED lastDrill

\* setDrillLevel(level, country, state); fitMapToData only moves the viewport
setDrillLevel(level, country, state) ==
    /\ drillLevel' = level
    /\ selectedCountry' = country
    /\ selectedState' = state
    /\ UNCHANGED <<selectedMetric, displayType, baseLayerKey>>
    /\ HandlerFrame
    /\ updateMarkers

\* onCountrySelect that forgets to clear the selected state
onCountrySelect_KeepsState(country) ==
    /\ phase = "active"
    /\ selectedCountry' = country
    /\ drillLevel' = "state"
    /\ UNCHANGED <<selectedMetric, displayType, baseLayerKey, selectedState>>
    /\ HandlerFrame
    /\ updateMarkers
    /\ lastDrill' = "onCountrySelect"

onCountrySelect(country) ==
    /\ phase = "active"
    /\ selectedCountry' = country
    /\ selectedState' = Null
    /\ drillLevel' = "state"
    /\ UNCHANGED <<selectedMetric, displayType, baseLayerKey>>
    /\ HandlerFrame
    /\ updateMarkers
    /\ lastDrill' = "onCountrySelect"

onStateSelect(state) ==
    /\ phase = "active"
    /\ selectedState' = state
    /\ drillLevel' = "city"
    /\ UNCHANGED <<selectedMetric, displayType, baseLayerKey, selectedCountry>>
    /\ HandlerFrame
    /\ updateMarkers
    /\ lastDrill' = "onStateSelect"

\* the state dropdown: drills only when a state is chosen
onStateSelectFromSelect(value) ==
    IF value # ""
    THEN onStateSelect(value)
    ELSE /\ phase = "active"
         /\ UNCHANGED <<viewVars, dataVars, mapVars, geoVars, phase, lastDrill, aggVars, fnVars>>

\* goToWorld that changes the level and keeps the selections
goToWorld_KeepsSelection ==
    /\ phase = "active"
    /\ setDrillLevel("country", selectedCountry, selectedState)
    /\ lastDrill' = "goToWorld"

goToWorld ==
    /\ phase = "active"
    /\ setDrillLevel("country", Null, Null)
    /\ lastDrill' = "goToWorld"

\* goBackFromState that clears the state and keeps the country
goBackFromState_KeepsCountry ==
    /\ phase = "active"
    /\ setDrillLevel("country", selectedCountry, Null)
    /\ lastDrill' = "goBackFromState"

goBackFromState ==
    /\ phase = "active"
    /\ setDrillLevel("country", Null, Null)
    /\ lastDrill' = "goBackFromState"

\* goBackFromCity that drops the selected country
goBackFromCity_DropsCountry ==
    /\ phase = "active"
    /\ setDrillLevel("state", Null, Null)
    /\ lastDrill' = "goBackFromCity"

goBackFromCity ==
    /\ phase = "active"
    /\ setDrillLevel("state", selectedCountry, Null)
    /\ lastDrill' = "goBackFromCity"

----------------------------------------------------------------------------
(* The component as a state machine *)

Next ==
    \/ \E containerExists \in BOOLEAN : ngAfterViewInit(containerExists)
    \/ \E data \in DataInputs : SurveyNext(data)
    \/ SurveyError
    \/ SurveyAfterDestroy
    \/ \E m \in MetricArgs : setCurrentMetric(m)
    \/ \E t \in DisplayTypes : setCurrentDisplayType(t)
    \/ \E k \in BaseLayerArgs : setCurrentBaseLayer(k)
    \/ \E c \in CountryArgs : onCountrySelect(c)
    \/ \E s \in StateArgs : onStateSelect(s)
    \/ \E v \in StateArgs : onStateSelectFromSelect(v)
    \/ goToWorld
    \/ goBackFromState
    \/ goBackFromCity
    \/ GeoHttpSuccess
    \/ GeoHttpError
    \/ ngOnDestroy

Spec == Init /\ [][Next]_vars

----------------------------------------------------------------------------
(* The aggregation functions applied to bounded inputs *)

AggWeights == {0, 1, 2}

\* a city of the harness: a place (country and state), a weight and one of
\* three score profiles (all present; all missing or NaN; negative NPS)
AggCity(place, w, profile) ==
    CASE profile = 1 ->
            City("a", place[2], place[1], 10, -20, Num(80), Num(90), Num(2), w, 2)
      [] profile = 2 ->
            City("b", place[2], place[1], 30, 40, NaN, Undefined, NaN, w, NoDate)
      [] OTHER ->
            City("c", place[2], place[1], -10, 5, Num(-40), NaN, Undefined, w, 1)

AggPlaces == {<<"USA", "CA">>, <<"USA", "">>, <<"UK", "">>}

AggPool == {AggCity(p, w, f) : p \in AggPlaces, w \in AggWeights, f \in 1..3}

AggInputs == SeqsUpTo(AggPool, MaxAggLen)

InitAgg ==
    /\ ComponentInit
    /\ aggInput \in AggInputs
    /\ aggCountry = Null
    /\ aggCall = "none"
    /\ aggResult = <<>>
    /\ FnIdle

ApplyAggregateByCountry ==
    /\ aggCall = "none"
    /\ aggCall' = "country"
    /\ aggResult' = aggregateByCountry(aggInput)
    /\ UNCHANGED <<viewVars, dataVars, mapVars, geoVars, phase,
                   aggInput, aggCountry, fnVars>>
    /\ UNCHANGED lastDrill

ApplyAggregateByState(country) ==
    /\ aggCall = "none"
    /\ aggCall' = "state"
    /\ aggCountry' = country
    /\ aggResult' = aggregateByState(aggInput, country)
    /\ UNCHANGED <<viewVars, dataVars, mapVars, geoVars, phase,
                   aggInput, fnVars>>
    /\ UNCHANGED lastDrill

\* country arguments of aggregateByState: the countries of the harness and a
\* name that differs from one of them in case only
AggCountryArgs == {"USA", "UK", "usa"}

NextAgg ==
    \/ ApplyAggregateByCountry
    \/ \E c \in AggCountryArgs : ApplyAggregateByState(c)

SpecAgg == InitAgg /\ [][NextAgg]_vars

----------------------------------------------------------------------------
(* The drill-down of a loaded component over bounded record lists *)

\* records of the three places with weights 1 and 2 (the heavier ones
\* without CSAT and with NaN NPS and CES)
DrillPool == {AggCity(p, w, w) : p \in AggPlaces, w \in {1, 2}}

DrillInputs == SeqsUpTo(DrillPool, MaxAggLen)

\* the component after ngAfterViewInit (with a map container) and the
\* arrival of the survey data: the country aggregates shown as circles
LoadedWith(data) ==
    /\ selectedMetric = "nps"
    /\ surveyData = data
    /\ loading = FALSE
    /\ error = Null
    /\ displayType = "circle"
    /\ drillLevel = "country"
    /\ selectedCountry = Null
    /\ selectedState = Null
    /\ baseLayerKey = "standard"
    /\ map = TRUE
    /\ markerLayers = [i \in 1..Len(aggregateByCountry(data)) |->
                          Marker(aggregateByCountry(data)[i], "nps", "circle")]
    /\ geoJsonLayer = NoLayer
    /\ mapGeoLayers = <<>>
    /\ tileLayer = "standard"
    /\ phase = "active"
    /\ surveyFetch = "done"
    /\ geoJsonObs = FALSE
    /\ geoHttp = "idle"
    /\ geoRequests = 0
    /\ geoSubs = <<>>
    /\ lastDrill = "none"

InitDrill ==
    /\ \E data \in DrillInputs : LoadedWith(data)
    /\ AggIdle
    /\ FnIdle

\* names a click on a marker or a choice in a dropdown passes to the handlers
DrillCountryArgs == {"USA", "UK"}
DrillStateArgs == {"CA", "USA", "UK"}

NextDrill ==
    \/ \E c \in DrillCountryArgs : onCountrySelect(c)
    \/ \E st \in DrillStateArgs : onStateSelect(st)
    \/ goBackFromCity
    \/ goToWorld

SpecDrill == InitDrill /\ [][NextDrill]_vars

----------------------------------------------------------------------------
(* The helper functions applied to bounded inputs *)

\* largest score among the arguments of getColor
MaxScore == 100
\* largest value among the arguments of formatMetricValue
MaxFormat == 6

\* every half between -2 and MaxScore + 1, and the values that are no number
ColorValues ==
    {JSDiv(i, 2) : i \in -4..(2 * MaxScore + 2)}
        \cup {NaN, Undefined, Infinity(1), Infinity(-1)}

\* the three metrics and a name that is none of them
ColorMetrics == Metrics \cup {"other"}

\* every quarter between -MaxFormat and MaxFormat, the two values of the
\* documented scenario (72.6 and 3.14159) and the values that are no finite
\* number
FormatValues ==
    {JSDiv(i, 4) : i \in (-4 * MaxFormat)..(4 * MaxFormat)}
        \cup {JSDiv(726, 10), JSDiv(314159, 100000)}
        \cup {NaN, Undefined, Infinity(1), Infinity(-1), StringValue}

\* entries of the table, names that are no entries, and names of members
\* of Object.prototype
GeoNameArgs ==
    DOMAIN COUNTRY_NAME_TO_GEO
        \cup {"Freedonia", "usa", "", "India"}
        \cup {"constructor", "toString", "__proto__"}

\* absent and empty dates, ISO dates, and strings that are no dates
SurveyTimeArgs ==
    {NoName, ""} \cup DOMAIN ParsedDates
        \cup {"not a date", "2024-13-45T09:30:00", "yesterday"}

FnInputs ==
    [fn : {"getColor"}, metric : ColorMetrics, value : ColorValues]
        \cup [fn : {"formatMetricValue"}, metric : Metrics, value : FormatValues]
        \cup [fn : {"geoNameForCountry"}, name : GeoNameArgs]
        \cup [fn : {"formatSurveyTime"}, iso : SurveyTimeArgs]

InitFn ==
    /\ ComponentInit
    /\ AggIdle
    /\ fnArgs \in FnInputs
    /\ fnCall = "none"
    /\ fnResult = Null

\* what applying a helper function leaves alone
FnFrame ==
    UNCHANGED <<viewVars, dataVars, mapVars, geoVars, phase, lastDrill, aggVars,
                fnArgs>>

ApplyGetColor ==
    /\ fnCall = "none"
    /\ fnArgs.fn = "getColor"
    /\ fnCall' = "getColor"
    /\ fnResult' = getColor(fnArgs.metric, fnArgs.value)
    /\ FnFrame

ApplyFormatMetricValue ==
    /\ fnCall = "none"
    /\ fnArgs.fn = "formatMetricValue"
    /\ fnCall' = "formatMetricValue"
    /\ fnResult' = formatMetricValue(fnArgs.value, fnArgs.metric)
    /\ FnFrame

ApplyGeoNameForCountry ==
    /\ fnCall = "none"
    /\ fnArgs.fn = "geoNameForCountry"
    /\ fnCall' = "geoNameForCountry"
    /\ fnResult' = geoNameForCountry(fnArgs.name)
    /\ FnFrame

ApplyFormatSurveyTime ==
    /\ fnCall = "none"
    /\ fnArgs.fn = "formatSurveyTime"
    /\ fnCall' = "formatSurveyTime"
    /\ fnResult' = formatSurveyTime(fnArgs.iso)
    /\ FnFrame

NextFn ==
    \/ ApplyGetColor
    \/ ApplyFormatMetricValue
    \/ ApplyGeoNameForCountry
    \/ ApplyFormatSurveyTime

SpecFn == InitFn /\ [][NextFn]_vars

----------------------------------------------------------------------------
(* Properties of the drill-down view state, checked under Spec *)

\* the drill level and the selections of the initial state
DrillIsInitial ==
    /\ drillLevel = "country"
    /\ selectedCountry = Null
    /\ selectedState = Null

\* C1: onStateSelect(s) called while no country is selected leaves the drill
\* level as it was.
C1_SelectStateWithoutCountryKeepsLevel ==
    [][\A s \in StateArgs :
          (selectedCountry = Null /\ onStateSelect(s)) => drillLevel' = drillLevel]_vars

\* C2: onCountrySelect(c), from any reachable state and for any c, results in
\* drill level state, selected country c and no selected state.
C2_SelectCountry ==
    [][\A c \in CountryArgs :
          onCountrySelect(c) =>
              /\ drillLevel' = "state"
              /\ selectedCountry' = c
              /\ selectedState' = Null]_vars

\* onCountrySelect has acted on a city-level view with loaded data
C2_Witness ==
    /\ lastDrill = "onCountrySelect"
    /\ selectedCountry = "UK"
    /\ surveyData # <<>>
    /\ markerLayers # <<>>

\* C3: goToWorld and goBackFromState each yield, from any reachable state,
\* the drill level and selections of the initial state (country, no country,
\* no state); in particular goBackFromState does so right after
\* onCountrySelect.
C3_WorldAndBackFromState ==
    /\ Init => DrillIsInitial
    /\ [][(goToWorld \/ goBackFromState) => DrillIsInitial']_vars
    /\ [][(lastDrill = "onCountrySelect" /\ selectedCountry # Null /\ goBackFromState)
            => DrillIsInitial']_vars

\* goBackFromState has acted, with data on the map
C3_Witness ==
    /\ lastDrill = "goBackFromState"
    /\ markerLayers # <<>>

\* C4: goBackFromCity results in drill level state and no selected state, and
\* keeps the selected country.
C4_BackFromCity ==
    [][goBackFromCity =>
          /\ drillLevel' = "state"
          /\ selectedState' = Null
          /\ selectedCountry' = selectedCountry]_vars

\* goBackFromCity has acted on a view with a country selected
C4_Witness ==
    /\ lastDrill = "goBackFromCity"
    /\ selectedCountry = "USA"
    /\ markerLayers # <<>>

\* C5: each selector setter sets its own field and leaves the drill level,
\* the selections and the other two selector fields unchanged.
C5_SettersAreFieldUpdates ==
    [][/\ \A m \in MetricArgs :
             setCurrentMetric(m) =>
                 /\ selectedMetric' = m
                 /\ UNCHANGED <<drillLevel, selectedCountry, selectedState,
                                displayType, baseLayerKey>>
       /\ \A t \in DisplayTypes :
             setCurrentDisplayType(t) =>
                 /\ displayType' = t
                 /\ UNCHANGED <<drillLevel, selectedCountry, selectedState,
                                selectedMetric, baseLayerKey>>
       /\ \A k \in BaseLayerArgs :
             setCurrentBaseLayer(k) =>
                 /\ baseLayerKey' = k
                 /\ UNCHANGED <<drillLevel, selectedCountry, selectedState,
                                selectedMetric, displayType>>]_vars

\* all three setters have acted on a drilled-down view
C5_Witness ==
    /\ selectedMetric = "ces"
    /\ displayType = "time"
    /\ baseLayerKey = "satellite"
    /\ drillLevel = "city"
    /\ selectedCountry = "USA"
    /\ selectedState = "CA"

\* C6: at drill level country no country and no state is selected.
C6_CountryLevelHasNoSelection ==
    drillLevel = "country" => (selectedCountry = Null /\ selectedState = Null)

\* the view has returned to the country level after a drill-down
C6_Witness ==
    /\ lastDrill = "goToWorld"
    /\ drillLevel = "country"
    /\ surveyData # <<>>

\* C7: a selected state implies drill level city and a selected country.
C7_SelectedStateImpliesCityAndCountry ==
    selectedState # Null => (drillLevel = "city" /\ selectedCountry # Null)

----------------------------------------------------------------------------
(* The render set, checked under Spec *)

\* a country or state is selected: the signal holds a non-empty name (the
\* handlers and currentMapData test the signals for truthiness)
C8_Selected(name) == name # Null /\ name # ""

\* the elements of seq at the positions in I, in their order
RECURSIVE C8_At(_, _)
C8_At(seq, I) ==
    IF seq = <<>> THEN <<>>
    ELSE LET n == Len(seq)
             front == C8_At(SubSeq(seq, 1, n - 1), I)
         IN  IF n \in I THEN Append(front, seq[n]) ELSE front

\* the render set as the claim describes it
C8_RenderSet ==
    CASE drillLevel = "country" -> aggregateByCountry(surveyData)
      [] drillLevel = "state" /\ C8_Selected(selectedCountry) ->
            aggregateByState(surveyData, selectedCountry)
      [] drillLevel = "city" /\ ~C8_Selected(selectedCountry) -> surveyData
      [] drillLevel = "city" /\ C8_Selected(selectedCountry) ->
            C8_At(surveyData,
                  {i \in 1..Len(surveyData) :
                      /\ surveyData[i].country = selectedCountry
                      /\ C8_Selected(selectedState) =>
                            (IF surveyData[i].state = ""
                             THEN surveyData[i].country
                             ELSE surveyData[i].state) = selectedState})
      [] OTHER -> <<>>

\* C8: currentMapData is, in every reachable state, the function of the
\* records, the drill level and the selections that the claim describes:
\* the country aggregates at level country, the state aggregates of the
\* selected country at level state, the raw records (all of them, or those of
\* the selected country and state, a city without a state counting under its
\* country's name) at level city, and the empty list otherwise.
C8_RenderSetIsFunctionOfState == currentMapData = C8_RenderSet

\* the city level of USA / "USA": the one city without a state is shown
C8_Witness ==
    /\ drillLevel = "city"
    /\ selectedCountry = "USA"
    /\ selectedState = "USA"
    /\ Len(surveyData) = 2
    /\ Len(currentMapData) = 1
    /\ currentMapData[1].state = ""

\* the level state with no country selected: nothing is shown
C8_WitnessEmpty ==
    /\ drillLevel = "state"
    /\ selectedCountry = Null
    /\ surveyData # <<>>
    /\ currentMapData = <<>>

----------------------------------------------------------------------------
(* Properties of the aggregation functions, checked under SpecAgg *)

\* the group key of a record for the function that was applied
AggKeyOf(c) ==
    IF aggCall = "country" THEN c.country
    ELSE IF c.state = "" THEN c.country ELSE c.state

\* the positions of the input records that the function groups under key
AggMembers(key) ==
    {i \in 1..Len(aggInput) :
        /\ aggCall = "state" => aggInput[i].country = aggCountry
        /\ AggKeyOf(aggInput[i]) = key}

\* the keys of the groups the function forms
AggKeys ==
    {AggKeyOf(aggInput[i]) :
        i \in {k \in 1..Len(aggInput) :
                  aggCall = "state" => aggInput[k].country = aggCountry}}

\* the sum of f[i] over the positions in I
RECURSIVE SumOver(_, _)
SumOver(f, I) ==
    IF I = {} THEN 0
    ELSE LET i == CHOOSE x \in I : TRUE IN f[i] + SumOver(f, I \ {i})

\* the value a record contributes for a field, with the documented defaults
C9_Value(c, field) ==
    CASE field = "latitude" -> c.latitude
      [] field = "longitude" -> c.longitude
      [] field = "nps" -> IF c.nps.k = "num" THEN c.nps.n ELSE 0
      [] field = "csat" -> IF c.csat.k = "num" THEN c.csat.n ELSE 50
      [] field = "ces" -> IF c.ces.k = "num" THEN c.ces.n ELSE 3

C9_Weights == [i \in 1..Len(aggInput) |-> aggInput[i].responseCount]
C9_Weighted(field) ==
    [i \in 1..Len(aggInput) |-> C9_Value(aggInput[i], field) * aggInput[i].responseCount]

AggField(a, field) ==
    CASE field = "latitude" -> a.latitude
      [] field = "longitude" -> a.longitude
      [] field = "nps" -> a.nps
      [] field = "csat" -> a.csat
      [] field = "ces" -> a.ces

AggFields == {"latitude", "longitude", "nps", "csat", "ces"}

\* v is the number sum(value * weight) / sum(weight) over the positions in I
C9_IsWeightedMean(v, field, I) ==
    /\ v.k = "num"
    /\ v.n * SumOver(C9_Weights, I) = SumOver(C9_Weighted(field), I) * v.d

\* C9: for every group of the input whose total response count is positive,
\* the aggregate of the group has latitude, longitude, NPS, CSAT and CES
\* equal to the response-count-weighted mean of the group's records, a
\* missing or NaN CSAT counting as 50, a missing or NaN CES as 3 and a NaN
\* NPS as 0.
C9_WeightedMeans ==
    aggCall # "none" =>
        \A key \in AggKeys :
            SumOver(C9_Weights, AggMembers(key)) > 0 =>
                /\ \E j \in 1..Len(aggResult) : aggResult[j].name = key
                /\ \A j \in 1..Len(aggResult) :
                      aggResult[j].name = key =>
                          \A field \in AggFields :
                              C9_IsWeightedMean(AggField(aggResult[j], field), field,
                                                AggMembers(key))

\* a group of three records with weights 1, 2, 2, one of them with NaN NPS
\* and CES and no CSAT, one with NaN CSAT and no CES: NPS (80 + 0 - 80) / 5,
\* CSAT (90 + 100 + 100) / 5, CES (2 + 6 + 6) / 5
C9_Witness ==
    /\ aggCall = "state"
    /\ \E j \in 1..Len(aggResult) :
          /\ aggResult[j].name = "CA"
          /\ aggResult[j].responseCount = 5
          /\ aggResult[j].nps = Num(0)
          /\ aggResult[j].csat = Num(58)
          /\ aggResult[j].ces = JSDiv(14, 5)
          /\ aggResult[j].latitude = JSDiv(10 + 60 - 20, 5)

\* C10: an aggregate of a group whose records all have response count 0 has
\* numbers (no NaN, no undefined) for latitude, longitude, NPS, CSAT and CES.
C10_ZeroWeightGroupHasNumbers ==
    aggCall # "none" =>
        \A j \in 1..Len(aggResult) :
            (\A i \in AggMembers(aggResult[j].name) : aggInput[i].responseCount = 0)
                => \A field \in AggFields : AggField(aggResult[j], field).k = "num"

\* the positions of the input records that the function reads at all
AggRead ==
    {i \in 1..Len(aggInput) : aggCall = "state" => aggInput[i].country = aggCountry}

C11_Counts == [j \in 1..Len(aggResult) |-> aggResult[j].responseCount]

\* C11: each aggregate's responseCount is the sum of responseCount over the
\* records of its group, and the sum of responseCount over all aggregates is
\* the sum over all input records (for aggregateByState(records, c): over all
\* records with country c).
C11_WeightPreserving ==
    aggCall # "none" =>
        /\ \A j \in 1..Len(aggResult) :
              aggResult[j].responseCount
                  = SumOver(C9_Weights, AggMembers(aggResult[j].name))
        /\ SumOver(C11_Counts, 1..Len(aggResult)) = SumOver(C9_Weights, AggRead)

\* aggregateByCountry on three records of two countries, weights 2 + 2 and 1
C11_Witness ==
    /\ aggCall = "country"
    /\ Len(aggInput) = 3
    /\ Len(aggResult) = 2
    /\ aggResult[1].responseCount = 4
    /\ aggResult[2].responseCount = 1
    /\ aggInput[3].responseCount = 2

\* the scenario of the specification: two USA/CA records, counts 10 and 10,
\* NPS 80 and 40
C12_Scenario ==
    aggregateByState(
        << City("Los Angeles", "CA", "USA", 34, -118, Num(80), Num(90), Num(2), 10, 1),
           City("San Diego", "CA", "USA", 32, -117, Num(40), Num(70), Num(4), 10, 2) >>,
        "USA")

\* C12: aggregateByState(records, country) reads only the records whose
\* country is the argument, groups them by state, a record without a state
\* counting under its country's name, and returns exactly one aggregate per
\* distinct key, each with level state, country the argument and name and
\* state the key; two USA/CA records with counts 10, 10 and NPS 80, 40 give
\* one aggregate CA with NPS 60 and responseCount 20.
C12_StateAggregates ==
    /\ aggCall = "state" =>
          /\ Len(aggResult) = Cardinality(AggKeys)
          /\ \A key \in AggKeys :
                \E j \in 1..Len(aggResult) : aggResult[j].name = key
          /\ \A j \in 1..Len(aggResult) :
                /\ aggResult[j].name \in AggKeys
                /\ aggResult[j].level = "state"
                /\ aggResult[j].country = aggCountry
                /\ aggResult[j].state = aggResult[j].name
                /\ aggResult[j].responseCount
                      = SumOver(C9_Weights, AggMembers(aggResult[j].name))
    /\ Len(C12_Scenario) = 1
    /\ C12_Scenario[1].name = "CA"
    /\ C12_Scenario[1].state = "CA"
    /\ C12_Scenario[1].country = "USA"
    /\ C12_Scenario[1].level = "state"
    /\ C12_Scenario[1].nps = Num(60)
    /\ C12_Scenario[1].responseCount = 20

\* aggregateByState("USA") on a UK record, a USA record without a state and
\* a USA/CA record: the groups USA and CA, the UK record left out
C12_Witness ==
    /\ aggCall = "state"
    /\ aggCountry = "USA"
    /\ Len(aggInput) = 3
    /\ aggInput[1].country = "UK"
    /\ aggInput[2].state = ""
    /\ aggInput[3].responseCount = 1
    /\ Len(aggResult) = 2
    /\ aggResult[1].name = "USA"
    /\ aggResult[2].name = "CA"

\* the dates of the records at the positions in I
C13_Dates(I) == {aggInput[i].surveyDate : i \in I} \ {NoDate}

\* C13: an aggregate's surveyDate is the greatest surveyDate among the
\* records of its group that have one, whatever the order of the records
\* (also when the first record of the group has none), and is absent only
\* when no record of the group has one.
C13_LatestDate ==
    aggCall # "none" =>
        \A j \in 1..Len(aggResult) :
            LET D == C13_Dates(AggMembers(aggResult[j].name)) IN
            IF D = {} THEN aggResult[j].surveyDate = NoDate
            ELSE /\ aggResult[j].surveyDate \in D
                 /\ \A d \in D : d <= aggResult[j].surveyDate

\* one group whose first record has no date, the second the later date and
\* the third the earlier one
C13_Witness ==
    /\ aggCall = "country"
    /\ Len(aggInput) = 3
    /\ Len(aggResult) = 1
    /\ aggInput[1].surveyDate = NoDate
    /\ aggInput[2].surveyDate = 2
    /\ aggInput[3].surveyDate = 1
    /\ aggResult[1].surveyDate = 2

----------------------------------------------------------------------------
(* Properties of the two fetches, checked under Spec *)

\* C17: the HTTP request for the world boundaries is issued at most once,
\* whether the first request is pending, has succeeded or has failed.
C17_GeographyFetchedOnce == geoRequests <= 1

\* C18: once the component is destroyed nothing changes surveyData, loading,
\* error, the marker list or the choropleth layer, whenever the survey
\* request or the world-atlas request completes.
C18_NothingChangesAfterTeardown ==
    [][phase = "destroyed" =>
          UNCHANGED <<surveyData, loading, error, markerLayers, geoJsonLayer,
                      mapGeoLayers>>]_vars

\* the survey request was outstanding at teardown and its outcome has
\* arrived since
C18_Witness ==
    /\ phase = "destroyed"
    /\ surveyFetch = "discarded"
    /\ loading = TRUE
    /\ surveyData = <<>>

\* the world-atlas request was outstanding at teardown
C18_WitnessGeo ==
    /\ phase = "destroyed"
    /\ geoHttp = "pending"
    /\ surveyData # <<>>

\* C19: after the survey request has failed the error is set and loading is
\* cleared, the record list is empty, and whatever drill transitions follow,
\* currentMapData is the empty list and every transition can be taken.
C19_SurveyFailureLeavesEmptyView ==
    surveyFetch = "failed" =>
        /\ error # Null
        /\ loading = FALSE
        /\ surveyData = <<>>
        /\ currentMapData = <<>>
        /\ markerLayers = <<>>
        /\ phase = "active" =>
              /\ \A c \in CountryArgs : ENABLED onCountrySelect(c)
              /\ \A st \in StateArgs : ENABLED onStateSelect(st)
              /\ ENABLED goToWorld
              /\ ENABLED goBackFromState
              /\ ENABLED goBackFromCity

\* the survey request has failed and the view was drilled down to a city
\* level afterwards, with the area display
C19_Witness ==
    /\ surveyFetch = "failed"
    /\ phase = "active"
    /\ lastDrill = "onStateSelect"
    /\ selectedCountry = "USA"
    /\ selectedState = "CA"
    /\ displayType = "area"

----------------------------------------------------------------------------
(* The choropleth layer, checked under Spec *)

\* C21: the map holds at most one choropleth layer, holds one only while
\* the display type is area and the drill level is country, that layer is
\* coloured by the selected metric, and it is the layer the component holds
\* in geoJsonLayer, so that the next clearMarkers removes it.
C21_ChoroplethFollowsViewState ==
    /\ Len(mapGeoLayers) <= 1
    /\ mapGeoLayers # <<>> =>
          /\ displayType = "area"
          /\ drillLevel = "country"
          /\ mapGeoLayers[1].metric = selectedMetric
          /\ geoJsonLayer = mapGeoLayers[1]
          /\ markerLayers = <<>>

----------------------------------------------------------------------------
(* Roll-up across the drill levels, checked under SpecDrill *)

C22_CountOf == [i \in 1..Len(surveyData) |-> surveyData[i].responseCount]

\* the positions of the records of country c whose state, or whose country
\* when they have no state, is name
C22_Contributors(c, name) ==
    {i \in 1..Len(surveyData) :
        /\ surveyData[i].country = c
        /\ (IF surveyData[i].state = "" THEN surveyData[i].country
            ELSE surveyData[i].state) = name}

C22_StateCounts(c) ==
    [j \in 1..Len(aggregateByState(surveyData, c)) |->
        aggregateByState(surveyData, c)[j].responseCount]

\* C22: for every country c of the record list, the responseCounts of
\* aggregateByState(records, c) add up to the responseCount of c's aggregate
\* in aggregateByCountry(records); and after onCountrySelect(c) and
\* onStateSelect(s.name), for a state aggregate s of c, the city-level
\* currentMapData is exactly the records that contributed to s, in their
\* order, with responseCounts adding up to s.responseCount (a record without
\* a state counting under its country's name), and one marker is drawn for
\* each.
C22_RollUp ==
    /\ \A k \in 1..Len(aggregateByCountry(surveyData)) :
          LET ca == aggregateByCountry(surveyData)[k] IN
          SumOver(C22_StateCounts(ca.name), 1..Len(aggregateByState(surveyData, ca.name)))
              = ca.responseCount
    /\ (lastDrill = "onStateSelect" /\ selectedCountry # Null) =>
          \A j \in 1..Len(aggregateByState(surveyData, selectedCountry)) :
              LET sa == aggregateByState(surveyData, selectedCountry)[j] IN
              sa.name = selectedState =>
                  /\ drillLevel = "city"
                  /\ currentMapData
                        = C8_At(surveyData, C22_Contributors(selectedCountry, sa.name))
                  /\ SumOver(C22_CountOf, C22_Contributors(selectedCountry, sa.name))
                        = sa.responseCount
                  /\ Len(markerLayers) = Len(currentMapData)

\* USA was selected, then the state aggregate named USA: of three USA
\* records the two without a state are shown, the CA record is not
C22_Witness ==
    /\ lastDrill = "onStateSelect"
    /\ selectedCountry = "USA"
    /\ selectedState = "USA"
    /\ Len(surveyData) = 3
    /\ surveyData[2].state = "CA"
    /\ Len(currentMapData) = 2
    /\ currentMapData[1].state = ""
    /\ currentMapData[1].responseCount + currentMapData[2].responseCount = 3
    /\ Len(aggregateByState(surveyData, "USA")) = 2

----------------------------------------------------------------------------
(* Properties of the helper functions, checked under SpecFn *)

C14_Good == "#22c55e"
C14_Neutral == "#eab308"
C14_Bad == "#ef4444"
C14_Unknown == "#6b7280"

\* the bands of the documented thresholds, for the rational n/d
C14_IsGood(metric, v) ==
    CASE metric = "nps" -> v.n >= 50 * v.d
      [] metric = "csat" -> v.n >= 80 * v.d
      [] metric = "ces" -> v.n < 3 * v.d
C14_IsNeutral(metric, v) ==
    CASE metric = "nps" -> 0 <= v.n /\ v.n < 50 * v.d
      [] metric = "csat" -> 60 * v.d <= v.n /\ v.n < 80 * v.d
      [] metric = "ces" -> 3 * v.d <= v.n /\ v.n <= 5 * v.d
C14_IsBad(metric, v) ==
    CASE metric = "nps" -> v.n < 0
      [] metric = "csat" -> v.n < 60 * v.d
      [] metric = "ces" -> v.n > 5 * v.d

\* C14: getColor returns, for each of the three metrics and every number,
\* the colour of exactly one band, with NPS >= 50 good, 0 <= NPS < 50
\* neutral, NPS < 0 bad; CSAT >= 80 good, 60 <= CSAT < 80 neutral, CSAT < 60
\* bad; CES < 3 good, 3 <= CES <= 5 neutral, CES > 5 bad; the boundary
\* values 50, 0, 80, 60, 3 and 5 fall in the band stated; a metric that is
\* none of the three gives the gray of the band 'unknown'.
C14_ClassifyIsTotal ==
    /\ (fnCall = "getColor" /\ fnArgs.metric \in Metrics /\ fnArgs.value.k = "num") =>
          LET m == fnArgs.metric
              v == fnArgs.value
          IN  /\ fnResult \in {C14_Good, C14_Neutral, C14_Bad}
              /\ fnResult = C14_Good <=> C14_IsGood(m, v)
              /\ fnResult = C14_Neutral <=> C14_IsNeutral(m, v)
              /\ fnResult = C14_Bad <=> C14_IsBad(m, v)
              /\ fnResult = getColor(m, v)
    /\ (fnCall = "getColor" /\ fnArgs.metric \notin Metrics) => fnResult = C14_Unknown
    /\ getColor("nps", Num(50)) = C14_Good
    /\ getColor("nps", Num(0)) = C14_Neutral
    /\ getColor("csat", Num(80)) = C14_Good
    /\ getColor("csat", Num(60)) = C14_Neutral
    /\ getColor("ces", Num(3)) = C14_Neutral
    /\ getColor("ces", Num(5)) = C14_Neutral

\* getColor has been applied to the boundary value CSAT = 60
C14_Witness ==
    /\ fnCall = "getColor"
    /\ fnArgs.metric = "csat"
    /\ fnArgs.value = Num(60)
    /\ fnResult = C14_Neutral

\* the signed number of tenths, or the signed integer, that a text shows
C15_Shown(text) ==
    LET m == IF text.t = "fixed" THEN 10 * text.int + text.frac ELSE text.int
    IN  IF text.neg THEN -m ELSE m

\* C15: formatMetricValue returns the placeholder for every input that is
\* not a finite number (undefined, a non-number, NaN, +Infinity, -Infinity);
\* for a finite number it returns the value with one fraction digit when the
\* metric is ces, and the nearest integer when the metric is nps or csat.
C15_FormatMetric ==
    fnCall = "formatMetricValue" =>
        LET v == fnArgs.value IN
        IF v.k # "num" THEN fnResult.t = Placeholder
        ELSE IF fnArgs.metric = "ces"
             THEN /\ fnResult.t = "fixed"
                  /\ fnResult.frac \in 0..9
                  /\ Abs(20 * v.n - 2 * v.d * C15_Shown(fnResult)) <= v.d
             ELSE /\ fnResult.t = "int"
                  /\ Abs(2 * v.n - 2 * v.d * C15_Shown(fnResult)) <= v.d

\* C16: geoNameForCountry returns the table value for every name that is an
\* entry of the table (USA gives United States of America), returns its
\* argument unchanged for every string that is no entry, and always returns
\* a string.
C16_GeoName ==
    fnCall = "geoNameForCountry" =>
        /\ fnResult.type = "string"
        /\ fnArgs.name \in DOMAIN COUNTRY_NAME_TO_GEO =>
              fnResult.value = COUNTRY_NAME_TO_GEO[fnArgs.name]
        /\ fnArgs.name = "USA" => fnResult.value = "United States of America"
        /\ fnArgs.name \notin DOMAIN COUNTRY_NAME_TO_GEO =>
              fnResult.value = fnArgs.name

\* C20: formatSurveyTime returns a date string that is present and does not
\* parse unchanged, and returns the placeholder for an absent date.
C20_MalformedDateIsReturnedRaw ==
    fnCall = "formatSurveyTime" =>
        /\ fnArgs.iso = NoName => fnResult = Placeholder
        /\ (fnArgs.iso \notin {NoName, ""} /\ fnArgs.iso \notin DOMAIN ParsedDates) =>
              fnResult = fnArgs.iso

====
